---- MODULE Spec2Model ----
(***************************************************************************)
(* Streaming speech-to-text session of cactus::STT (src/cactus/cactus_stt.h *)
(* and src/cactus/cactus_stt.cpp).  The recognition engine (whisper_full)   *)
(* is an external collaborator: a pass emits zero or more reports of newly  *)
(* produced segments through the new-segment callback and then returns      *)
(* zero (success) or non-zero (failure).                                    *)
(***************************************************************************)
EXTENDS Integers, Sequences, FiniteSets, TLC

\* ---- bounds of the model ----
MaxSegments == 1      \* most segments one recognition pass produces
MaxPasses == 2        \* most recognition passes in one session
MaxPassSegments == 2  \* most segments of a pass that is followed report by report
MaxStreams == 2       \* most streams one CactusSTTService is asked to open

\* ---- values ----
NullCb == "nullptr_fn"            \* an empty std::function
NullPrompt == "nullptr"           \* wparams.initial_prompt = nullptr
NullText == "nulltext"            \* whisper_full_get_segment_text gave NULL
EngineFailure == 1                \* a non-zero return of whisper_full

Chunks == {<<>>, <<"s1">>}                 \* audio chunks: empty, or samples
SegTexts == {<<"a">>, <<"b">>}             \* segment texts, as character sequences
PartialCallbacks == {NullCb, "on_partial"}
FinalCallbacks == {NullCb, "on_final"}
ThreadCounts == {4}
SegmentCaps == {0}
\* the advanced parameters of a call; temperature 0 stands for 0.0f
STTAdvancedParams == [n_threads : ThreadCounts, token_timestamps : {FALSE},
                      temperature : {0}, speed_up : {FALSE}, audio_ctx : {0},
                      max_len : SegmentCaps, max_tokens : {0}, no_context : BOOLEAN]
DefaultParams == [n_threads |-> 4, token_timestamps |-> FALSE, temperature |-> 0,
                  speed_up |-> FALSE, audio_ctx |-> 0, max_len |-> 0, max_tokens |-> 0,
                  no_context |-> TRUE]
\* parameters other than the defaults, as a caller may pass them to startStream
TunedParams == [n_threads : {4, 8}, token_timestamps : {FALSE},
                temperature : {0}, speed_up : BOOLEAN, audio_ctx : {0},
                max_len : {0, 1}, max_tokens : {0}, no_context : BOOLEAN]
\* whisper_full_default_params leaves the segment and token caps disabled
WhisperDefaultCap == 0
\* the engine settings when they ignore the params of the stream
StreamWParamsDefault(params) ==
    [n_threads |-> 4, token_timestamps |-> FALSE, temperature |-> 0,
     speed_up |-> FALSE, audio_ctx |-> 0,
     max_len |-> WhisperDefaultCap, max_tokens |-> WhisperDefaultCap]
\* the engine settings a streaming pass takes from the params of the stream
StreamWParams(params) ==
    [n_threads |-> params.n_threads,
     token_timestamps |-> params.token_timestamps,
     temperature |-> params.temperature,
     speed_up |-> params.speed_up,
     audio_ctx |-> params.audio_ctx,
     max_len |-> IF params.max_len > 0 THEN params.max_len ELSE WhisperDefaultCap,
     max_tokens |-> IF params.max_tokens > 0 THEN params.max_tokens ELSE WhisperDefaultCap]
Vocabularies == {"", "cactus"}
ReturnCodes == {0, EngineFailure}

VARIABLES
    ctx_,                               \* TRUE iff the whisper context is non-null
    user_vocabulary_,
    stream_audio_buffer_,
    stt_partial_result_cb_,
    stt_final_result_cb_,
    current_stream_params_,
    is_streaming_active_,
    accumulated_stream_transcription_,
    result_all,                         \* the segments held by the whisper context
    g_last_initial_prompt_for_test,     \* the initial_prompt of the latest engine call
    log,                                \* what the caller and the engine saw since the last successful startStream
    lastOp,                             \* the most recent call and what it returned
    th,                                 \* where each calling thread stands inside its call
    service                             \* the Dart or Swift CactusSTTService bound to this STT

vars == <<ctx_, user_vocabulary_, stream_audio_buffer_, stt_partial_result_cb_,
          stt_final_result_cb_, current_stream_params_, is_streaming_active_,
          accumulated_stream_transcription_, result_all,
          g_last_initial_prompt_for_test, log, lastOp, th, service>>

streamVars == <<stream_audio_buffer_, stt_partial_result_cb_, stt_final_result_cb_,
                current_stream_params_, is_streaming_active_,
                accumulated_stream_transcription_>>

engineVars == <<result_all, g_last_initial_prompt_for_test>>

\* ---- observation of one call ----
Op(name, ret, active0, arg) == [name |-> name, ret |-> ret, active0 |-> active0, arg |-> arg]
NoArg == <<>>

StartEvent(params, partial_cb, final_cb) ==
    [type |-> "start", params |-> params, partial_cb |-> partial_cb, final_cb |-> final_cb]
PassEvent(by, no_context, audio) ==
    [type |-> "pass", by |-> by, no_context |-> no_context, audio |-> audio]
PassEndEvent(by, rc, segs) == [type |-> "pass_end", by |-> by, rc |-> rc, segs |-> segs]
\* seen: the accumulated transcript as it stands when the callback runs
PartialEvent(cb, text, seen) == [type |-> "partial", cb |-> cb, text |-> text, seen |-> seen]
FinalEvent(by, cb, text) == [type |-> "final", by |-> by, cb |-> cb, text |-> text]

EventsOf(l, type) == SelectSeq(l, LAMBDA e : e.type = type)
\* what a step adds to the record of the session
NewEvents == SubSeq(log', Len(log) + 1, Len(log'))
NumPasses(l) == Len(EventsOf(l, "pass"))

\* ---- the engine ----
RECURSIVE SumSeq(_)
SumSeq(s) == IF s = <<>> THEN 0 ELSE Head(s) + SumSeq(Tail(s))

\* the ways a pass reports n segments: the n_new of each new-segment callback
Splits(n) == {s \in UNION {[1..k -> 1..n] : k \in 0..n} : SumSeq(s) = n}

\* what one whisper_full call can do: the segments it produces, how it reports
\* them, and its return code
EngineOutcomes ==
    UNION {{[segs |-> segs, split |-> split, rc |-> rc] :
               segs \in [1..n -> SegTexts], split \in Splits(n), rc \in ReturnCodes} :
           n \in 0..MaxSegments}

\* the same for a pass of up to MaxPassSegments segments
PassOutcomes ==
    UNION {{[segs |-> segs, split |-> split, rc |-> rc] :
               segs \in [1..n -> SegTexts], split \in Splits(n), rc \in ReturnCodes} :
           n \in 0..MaxPassSegments}

\* what the whisper_full call of a one-shot transcription can do: no segment
\* or the segment "a", with either return code
OneShotOutcomes ==
    {[segs |-> segs, split |-> IF segs = <<>> THEN <<>> ELSE <<1>>, rc |-> rc] :
        segs \in {<<>>, << <<"a">> >>}, rc \in ReturnCodes}

\* finishStream with an empty buffer makes no engine call
NoPass == [segs |-> <<>>, split |-> <<>>, rc |-> 0]

\* ---- calling threads ----
\* the audio-capture thread feeds chunks, the control thread starts and finishes
Threads == {"capture", "control"}
\* the engine settings of a thread that is not in a streaming call
IdleWParams == StreamWParams(DefaultParams)
IdleLocal == [pc |-> "idle", active0 |-> FALSE, chunk |-> <<>>,
              wparams |-> IdleWParams, no_context |-> FALSE,
              prompt |-> NullPrompt, audio |-> <<>>, out |-> NoPass, k |-> 0]
HandlerOf(t) == IF t = "capture" THEN "processAudioChunk" ELSE "finishStream"

\* ---- pure helpers of the handlers ----
\* the guard of startStream: no context, or a stream already active
StartRejectedNoActiveCheck(ctx, active) == ~ctx
StartRejectedNoCtxCheck(ctx, active) == active
StartRejected(ctx, active) == ~ctx \/ active

\* the guard of processAudioChunk and finishStream
NotStreamingNoActiveCheck(ctx, active) == ~ctx
NotStreaming(ctx, active) == ~active \/ ~ctx

\* audio_chunk.empty()
EmptyChunkNeverEmpty(audio_chunk) == FALSE
EmptyChunk(audio_chunk) == audio_chunk = <<>>

\* accumulated_stream_transcription_ += segment_str
AppendSegmentAssign(acc, segment_str) == segment_str
AppendSegmentPrepend(acc, segment_str) == segment_str \o acc
AppendSegment(acc, segment_str) == acc \o segment_str

\* stream_audio_buffer_.insert(end, chunk): the chunk goes behind what is there
AppendChunkReplace(buffer, audio_chunk) == audio_chunk
AppendChunk(buffer, audio_chunk) == buffer \o audio_chunk

\* is_streaming_active_ once a pass inside processAudioChunk has failed
ActiveAfterFailedPassKept(active) == active
ActiveAfterFailedPass(active) == FALSE

\* the argument processAudioChunk gives to the final callback on failure
FailureTranscriptAccumulated(acc) == acc
FailureTranscript(acc) == <<>>

\* the argument finishStream gives to the final callback
FinishTranscriptCleared(acc) == <<>>
FinishTranscript(acc) == acc

\* stream_audio_buffer_.clear() and accumulated_stream_transcription_.clear()
\* in startStream
ClearedAtStartKept(container) == container
ClearedAtStart(container) == <<>>

\* stream_audio_buffer_.clear() once a pass is over
ClearedBufferKept(buffer) == buffer
ClearedBuffer(buffer) == <<>>

\* wparams.no_context of a streaming pass
StreamNoContextAlwaysCarry(acc, params) == FALSE
StreamNoContext(acc, params) == IF acc = <<>> THEN params.no_context ELSE FALSE

\* wparams.initial_prompt
InitialPromptVerbatim(vocabulary) == vocabulary
InitialPrompt(vocabulary) == IF vocabulary # "" THEN vocabulary ELSE NullPrompt

\* the transcript at the partial callback: the += comes before the call
SeenBeforeAppend(acc_before, acc_after) == acc_before
SeenByPartialCallback(acc_before, acc_after) == acc_after

\* whisper_new_segment_callback_static: st = [acc, log], the transcript and
\* the caller's view; segs is what whisper_full_n_segments/get_segment_text see
RECURSIVE SegmentLoop(_, _, _, _, _)
SegmentLoop(st, segs, i, n_segments, partial_cb) ==
    IF i >= n_segments THEN st
    ELSE LET segment_text == segs[i + 1]
             appended == AppendSegment(st.acc, segment_text)
             next == IF segment_text # NullText
                     THEN [acc |-> appended,
                           log |-> IF partial_cb # NullCb
                                   THEN Append(st.log,
                                               PartialEvent(partial_cb, segment_text,
                                                            SeenByPartialCallback(st.acc, appended)))
                                   ELSE st.log]
                     ELSE st
         IN SegmentLoop(next, segs, i + 1, n_segments, partial_cb)

whisper_new_segment_callback_all(st, active, segs, n_new, partial_cb) ==
    IF ~active THEN st
    ELSE SegmentLoop(st, segs, 0, Len(segs), partial_cb)

whisper_new_segment_callback_static(st, active, segs, n_new, partial_cb) ==
    IF ~active THEN st
    ELSE SegmentLoop(st, segs, Len(segs) - n_new, Len(segs), partial_cb)

\* whisper_full as the streaming handlers see it: the reports of one pass, in
\* order; k reports done, done segments so far
RECURSIVE RunReports(_, _, _, _, _, _)
RunReports(st, out, k, done, active, partial_cb) ==
    IF k > Len(out.split) THEN st
    ELSE LET n_new == out.split[k]
             segs == SubSeq(out.segs, 1, done + n_new)
         IN RunReports(whisper_new_segment_callback_static(st, active, segs, n_new, partial_cb),
                       out, k + 1, done + n_new, active, partial_cb)

\* one whole whisper_full call made by handler `by` over `audio`
whisper_full(st, by, no_context, audio, out, active, partial_cb) ==
    LET begun == [st EXCEPT !.log = Append(st.log, PassEvent(by, no_context, audio))]
        ran == RunReports(begun, out, 1, 0, active, partial_cb)
    IN [ran EXCEPT !.log = Append(ran.log, PassEndEvent(by, out.rc, out.segs))]

\* the wparams of a one-shot call carry no new_segment_callback: the reports
\* of its pass reach nobody
OneShotReportsDelivered(st, out, active, partial_cb) ==
    RunReports(st, out, 1, 0, active, partial_cb)
OneShotReports(st, out, active, partial_cb) == st

\* ---- the Dart binding: CactusSTTService drives the STT through the C   ----
\* ---- stream functions, one call at a time; the native callbacks reach  ----
\* ---- it through the two static dispatchers, inside feed and finish     ----
NullRef == "null"
StreamErrorHandlers == {NullRef, "onStreamError"}

\* a StreamController<String>.broadcast() and a Completer<String>; id 0
\* stands for the null reference, id n for the object made by the n-th start
StreamController(id) == [id |-> id, isClosed |-> FALSE, added |-> <<>>]
Completer(id) == [id |-> id, isCompleted |-> FALSE, error |-> FALSE, value |-> <<>>]
complete(completer, value) == [completer EXCEPT !.isCompleted = TRUE, !.value = value]
completeError(completer) == [completer EXCEPT !.isCompleted = TRUE, !.error = TRUE]
close(controller) == [controller EXCEPT !.isClosed = TRUE]

\* what a call gave its caller: a value (as text, when it gives one), or an
\* exception (thrown, or the error of the future it returned)
Gave(call, outcome, value) == [call |-> call, outcome |-> outcome, value |-> value]
FutureOf(call, completer) ==
    Gave(call,
         IF ~completer.isCompleted THEN "pending"
         ELSE IF completer.error THEN "error" ELSE "value",
         completer.value)

CactusSTTService ==
    [_isStreaming |-> FALSE,
     _partialTranscriptStreamController |-> StreamController(0),
     _finalTranscriptCompleter |-> Completer(0),
     _onStreamError |-> NullRef,
     created |-> 0,
     gave |-> Gave("CactusSTTService", "value", NoArg)]

\* ---- construction ----
NativeInit ==
    /\ ctx_ = FALSE
    /\ user_vocabulary_ = ""
    /\ stream_audio_buffer_ = <<>>
    /\ stt_partial_result_cb_ = NullCb
    /\ stt_final_result_cb_ = NullCb
    /\ current_stream_params_ = DefaultParams
    /\ is_streaming_active_ = FALSE
    /\ accumulated_stream_transcription_ = <<>>
    /\ result_all = <<>>
    /\ g_last_initial_prompt_for_test = NullPrompt
    /\ log = <<>>
    /\ lastOp = Op("STT", TRUE, FALSE, NoArg)
    /\ th = [t \in Threads |-> IdleLocal]

Init ==
    /\ NativeInit
    /\ service = CactusSTTService

\* ---- operations ----
initialize(loaded) ==
    /\ IF ctx_
       THEN /\ lastOp' = Op("initialize", FALSE, is_streaming_active_, NoArg)
            /\ UNCHANGED ctx_
       ELSE /\ ctx_' = loaded
            /\ lastOp' = Op("initialize", loaded, is_streaming_active_, NoArg)
    /\ UNCHANGED <<user_vocabulary_, streamVars, engineVars, log>>

setUserVocabulary(vocabulary) ==
    /\ user_vocabulary_' = vocabulary
    /\ lastOp' = Op("setUserVocabulary", TRUE, is_streaming_active_, NoArg)
    /\ UNCHANGED <<ctx_, streamVars, engineVars, log>>

processAudioWithParams(samples, params) ==
    IF ~ctx_ \/ samples = <<>>
    THEN /\ lastOp' = Op("processAudioWithParams", FALSE, is_streaming_active_, samples)
         /\ UNCHANGED <<ctx_, user_vocabulary_, streamVars, engineVars, log>>
    ELSE \E out \in OneShotOutcomes :
         LET ran == OneShotReports([acc |-> accumulated_stream_transcription_, log |-> log],
                                   out, is_streaming_active_, stt_partial_result_cb_)
         IN /\ result_all' = out.segs
            /\ g_last_initial_prompt_for_test' = InitialPrompt(user_vocabulary_)
            /\ accumulated_stream_transcription_' = ran.acc
            /\ log' = ran.log
            /\ lastOp' = Op("processAudioWithParams", out.rc = 0, is_streaming_active_, samples)
            /\ UNCHANGED <<ctx_, user_vocabulary_, stream_audio_buffer_,
                           stt_partial_result_cb_, stt_final_result_cb_,
                           current_stream_params_, is_streaming_active_>>

processAudio(samples) == processAudioWithParams(samples, DefaultParams)

startStream(params, partial_cb, final_cb) ==
    IF StartRejected(ctx_, is_streaming_active_)
    THEN /\ lastOp' = Op("startStream", FALSE, is_streaming_active_, NoArg)
         /\ UNCHANGED <<ctx_, user_vocabulary_, streamVars, engineVars, log>>
    ELSE /\ current_stream_params_' = params
         /\ stt_partial_result_cb_' = partial_cb
         /\ stt_final_result_cb_' = final_cb
         /\ stream_audio_buffer_' = ClearedAtStart(stream_audio_buffer_)
         /\ accumulated_stream_transcription_' = ClearedAtStart(accumulated_stream_transcription_)
         /\ is_streaming_active_' = TRUE
         /\ log' = <<StartEvent(params, partial_cb, final_cb)>>
         /\ lastOp' = Op("startStream", TRUE, is_streaming_active_, NoArg)
         /\ UNCHANGED <<ctx_, user_vocabulary_, engineVars>>

processAudioChunk(audio_chunk) ==
    IF NotStreaming(ctx_, is_streaming_active_)
    THEN /\ lastOp' = Op("processAudioChunk", FALSE, is_streaming_active_, audio_chunk)
         /\ UNCHANGED <<ctx_, user_vocabulary_, streamVars, engineVars, log>>
    ELSE IF EmptyChunk(audio_chunk)
    THEN /\ lastOp' = Op("processAudioChunk", TRUE, is_streaming_active_, audio_chunk)
         /\ UNCHANGED <<ctx_, user_vocabulary_, streamVars, engineVars, log>>
    ELSE \E out \in EngineOutcomes :
         LET buffer == AppendChunk(stream_audio_buffer_, audio_chunk)
             no_context == StreamNoContext(accumulated_stream_transcription_,
                                           current_stream_params_)
             ran == whisper_full([acc |-> accumulated_stream_transcription_, log |-> log],
                                 "processAudioChunk", no_context, buffer, out,
                                 is_streaming_active_, stt_partial_result_cb_)
         IN /\ NumPasses(log) < MaxPasses
            /\ result_all' = out.segs
            /\ g_last_initial_prompt_for_test' = InitialPrompt(user_vocabulary_)
            /\ accumulated_stream_transcription_' = ran.acc
            /\ IF out.rc # 0
               THEN /\ is_streaming_active_' = ActiveAfterFailedPass(is_streaming_active_)
                    /\ log' = IF stt_final_result_cb_ # NullCb
                              THEN Append(ran.log, FinalEvent("processAudioChunk",
                                                              stt_final_result_cb_,
                                                              FailureTranscript(ran.acc)))
                              ELSE ran.log
                    /\ stream_audio_buffer_' = buffer
                    /\ lastOp' = Op("processAudioChunk", FALSE, is_streaming_active_, audio_chunk)
               ELSE /\ stream_audio_buffer_' = ClearedBuffer(buffer)
                    /\ log' = ran.log
                    /\ lastOp' = Op("processAudioChunk", TRUE, is_streaming_active_, audio_chunk)
                    /\ UNCHANGED is_streaming_active_
            /\ UNCHANGED <<ctx_, user_vocabulary_, stt_partial_result_cb_,
                           stt_final_result_cb_, current_stream_params_>>

finishStream ==
    IF NotStreaming(ctx_, is_streaming_active_)
    THEN /\ lastOp' = Op("finishStream", FALSE, is_streaming_active_, NoArg)
         /\ UNCHANGED <<ctx_, user_vocabulary_, streamVars, engineVars, log>>
    ELSE \E out \in IF stream_audio_buffer_ # <<>> THEN EngineOutcomes ELSE {NoPass} :
         LET st0 == [acc |-> accumulated_stream_transcription_, log |-> log]
             no_context == StreamNoContext(accumulated_stream_transcription_,
                                           current_stream_params_)
             ran == IF stream_audio_buffer_ # <<>>
                    THEN whisper_full(st0, "finishStream", no_context, stream_audio_buffer_,
                                      out, is_streaming_active_, stt_partial_result_cb_)
                    ELSE st0
         IN /\ result_all' = IF stream_audio_buffer_ # <<>> THEN out.segs ELSE result_all
            /\ g_last_initial_prompt_for_test' =
                  IF stream_audio_buffer_ # <<>> THEN InitialPrompt(user_vocabulary_)
                  ELSE g_last_initial_prompt_for_test
            /\ stream_audio_buffer_' = ClearedBuffer(stream_audio_buffer_)
            /\ log' = IF stt_final_result_cb_ # NullCb
                      THEN Append(ran.log, FinalEvent("finishStream", stt_final_result_cb_,
                                                      FinishTranscript(ran.acc)))
                      ELSE ran.log
            /\ is_streaming_active_' = FALSE
            /\ stt_partial_result_cb_' = NullCb
            /\ stt_final_result_cb_' = NullCb
            /\ accumulated_stream_transcription_' = <<>>
            /\ lastOp' = Op("finishStream", TRUE, is_streaming_active_, NoArg)
            /\ UNCHANGED <<ctx_, user_vocabulary_, current_stream_params_>>

\* ---- serialized use: every call runs to completion before the next ----
Initialize == /\ \E loaded \in BOOLEAN : initialize(loaded)
              /\ UNCHANGED <<th, service>>
SetUserVocabulary == /\ \E vocabulary \in Vocabularies : setUserVocabulary(vocabulary)
                     /\ UNCHANGED <<th, service>>
ProcessAudio == /\ \E samples \in Chunks : processAudio(samples)
                /\ UNCHANGED <<th, service>>
ProcessAudioWithParams ==
    /\ \E samples \in Chunks, params \in STTAdvancedParams :
          processAudioWithParams(samples, params)
    /\ UNCHANGED <<th, service>>
StartStream ==
    /\ \E params \in STTAdvancedParams, partial_cb \in PartialCallbacks,
          final_cb \in FinalCallbacks : startStream(params, partial_cb, final_cb)
    /\ UNCHANGED <<th, service>>
ProcessAudioChunk == /\ \E audio_chunk \in Chunks : processAudioChunk(audio_chunk)
                     /\ UNCHANGED <<th, service>>
FinishStream == /\ finishStream
                /\ UNCHANGED <<th, service>>

Next ==
    \/ Initialize
    \/ SetUserVocabulary
    \/ StartStream
    \/ ProcessAudioChunk
    \/ FinishStream

Spec == Init /\ [][Next]_vars

\* ---- serialized use, one-shot transcription included ----
NextOneShot ==
    \/ Initialize
    \/ SetUserVocabulary
    \/ ProcessAudio
    \/ ProcessAudioWithParams
    \/ StartStream
    \/ ProcessAudioChunk
    \/ FinishStream

SpecOneShot == Init /\ [][NextOneShot]_vars

\* ---- unserialized use: processAudioChunk on the capture thread overlaps ----
\* ---- finishStream on the control thread, statement by statement        ----
Goto(t, label) == [th EXCEPT ![t].pc = label]
Return(t) == [th EXCEPT ![t] = IdleLocal]

\* processAudioChunk up to the whisper_full call: guard, append, wparams
FeedEnter(audio_chunk) ==
    LET t == "capture" IN
    /\ th[t].pc = "idle"
    /\ IF NotStreaming(ctx_, is_streaming_active_)
       THEN /\ lastOp' = Op("processAudioChunk", FALSE, is_streaming_active_, audio_chunk)
            /\ UNCHANGED <<stream_audio_buffer_, th>>
       ELSE IF EmptyChunk(audio_chunk)
       THEN /\ lastOp' = Op("processAudioChunk", TRUE, is_streaming_active_, audio_chunk)
            /\ UNCHANGED <<stream_audio_buffer_, th>>
       ELSE /\ NumPasses(log) + 1 < MaxPasses   \* one pass is left for finishStream
            /\ stream_audio_buffer_' = AppendChunk(stream_audio_buffer_, audio_chunk)
            /\ th' = [th EXCEPT ![t] =
                         [IdleLocal EXCEPT
                             !.pc = "call_engine",
                             !.active0 = is_streaming_active_,
                             !.chunk = audio_chunk,
                             !.wparams = StreamWParams(current_stream_params_),
                             !.no_context = StreamNoContext(accumulated_stream_transcription_,
                                                            current_stream_params_),
                             !.prompt = InitialPrompt(user_vocabulary_)]]
            /\ UNCHANGED lastOp
    /\ UNCHANGED <<service, ctx_, user_vocabulary_, stt_partial_result_cb_, stt_final_result_cb_,
                   current_stream_params_, is_streaming_active_,
                   accumulated_stream_transcription_, engineVars, log>>

\* finishStream up to the whisper_full call, or past it when the buffer is empty
FinishEnter ==
    LET t == "control" IN
    /\ th[t].pc = "idle"
    /\ IF NotStreaming(ctx_, is_streaming_active_)
       THEN /\ lastOp' = Op("finishStream", FALSE, is_streaming_active_, NoArg)
            /\ UNCHANGED th
       ELSE IF stream_audio_buffer_ # <<>>
       THEN /\ th' = [th EXCEPT ![t] =
                         [IdleLocal EXCEPT
                             !.pc = "call_engine",
                             !.active0 = is_streaming_active_,
                             !.wparams = StreamWParams(current_stream_params_),
                             !.no_context = StreamNoContext(accumulated_stream_transcription_,
                                                            current_stream_params_),
                             !.prompt = InitialPrompt(user_vocabulary_)]]
            /\ UNCHANGED lastOp
       ELSE /\ th' = [th EXCEPT ![t] = [IdleLocal EXCEPT !.pc = "final_cb",
                                                         !.active0 = is_streaming_active_]]
            /\ UNCHANGED lastOp
    /\ UNCHANGED <<service, ctx_, user_vocabulary_, streamVars, engineVars, log>>

\* whisper_full is entered on the buffer as it stands; the context drops the
\* segments of the previous call
EngineBegin(t) ==
    /\ th[t].pc = "call_engine"
    /\ \E out \in EngineOutcomes :
          th' = [th EXCEPT ![t].pc = "in_engine", ![t].out = out, ![t].k = 1,
                           ![t].audio = stream_audio_buffer_]
    /\ result_all' = <<>>
    /\ g_last_initial_prompt_for_test' = th[t].prompt
    /\ log' = Append(log, PassEvent(HandlerOf(t), th[t].no_context, stream_audio_buffer_))
    /\ UNCHANGED <<service, ctx_, user_vocabulary_, streamVars, lastOp>>

\* the engine adds n_new segments and runs the new-segment callback
EngineReport(t) ==
    /\ th[t].pc = "in_engine"
    /\ th[t].k <= Len(th[t].out.split)
    /\ LET n_new == th[t].out.split[th[t].k]
           done == SumSeq(SubSeq(th[t].out.split, 1, th[t].k - 1))
           segs == result_all \o SubSeq(th[t].out.segs, done + 1, done + n_new)
           st == whisper_new_segment_callback_static(
                     [acc |-> accumulated_stream_transcription_, log |-> log],
                     is_streaming_active_, segs, n_new, stt_partial_result_cb_)
       IN /\ result_all' = segs
          /\ accumulated_stream_transcription_' = st.acc
          /\ log' = st.log
    /\ th' = [th EXCEPT ![t].k = @ + 1]
    /\ UNCHANGED <<service, ctx_, user_vocabulary_, stream_audio_buffer_, stt_partial_result_cb_,
                   stt_final_result_cb_, current_stream_params_, is_streaming_active_,
                   g_last_initial_prompt_for_test, lastOp>>

\* whisper_full returns; finishStream clears the buffer whatever it returned
EngineReturn(t) ==
    /\ th[t].pc = "in_engine"
    /\ th[t].k > Len(th[t].out.split)
    /\ log' = Append(log, PassEndEvent(HandlerOf(t), th[t].out.rc, th[t].out.segs))
    /\ IF t = "capture"
       THEN /\ th' = Goto(t, IF th[t].out.rc # 0 THEN "fail_flag" ELSE "clear_buffer")
            /\ UNCHANGED stream_audio_buffer_
       ELSE /\ th' = Goto(t, "final_cb")
            /\ stream_audio_buffer_' = ClearedBuffer(stream_audio_buffer_)
    /\ UNCHANGED <<service, ctx_, user_vocabulary_, stt_partial_result_cb_, stt_final_result_cb_,
                   current_stream_params_, is_streaming_active_,
                   accumulated_stream_transcription_, engineVars, lastOp>>

\* processAudioChunk, failure branch: is_streaming_active_ = false
FeedFailFlag ==
    LET t == "capture" IN
    /\ th[t].pc = "fail_flag"
    /\ is_streaming_active_' = ActiveAfterFailedPass(is_streaming_active_)
    /\ th' = Goto(t, "fail_cb")
    /\ UNCHANGED <<service, ctx_, user_vocabulary_, stream_audio_buffer_, stt_partial_result_cb_,
                   stt_final_result_cb_, current_stream_params_,
                   accumulated_stream_transcription_, engineVars, log, lastOp>>

\* processAudioChunk, failure branch: the final callback, then return false
FeedFailCallback ==
    LET t == "capture" IN
    /\ th[t].pc = "fail_cb"
    /\ log' = IF stt_final_result_cb_ # NullCb
              THEN Append(log, FinalEvent("processAudioChunk", stt_final_result_cb_,
                                          FailureTranscript(accumulated_stream_transcription_)))
              ELSE log
    /\ lastOp' = Op("processAudioChunk", FALSE, th[t].active0, th[t].chunk)
    /\ th' = Return(t)
    /\ UNCHANGED <<service, ctx_, user_vocabulary_, streamVars, engineVars>>

\* processAudioChunk, success: clear the buffer and return true
FeedClear ==
    LET t == "capture" IN
    /\ th[t].pc = "clear_buffer"
    /\ stream_audio_buffer_' = ClearedBuffer(stream_audio_buffer_)
    /\ lastOp' = Op("processAudioChunk", TRUE, th[t].active0, th[t].chunk)
    /\ th' = Return(t)
    /\ UNCHANGED <<service, ctx_, user_vocabulary_, stt_partial_result_cb_, stt_final_result_cb_,
                   current_stream_params_, is_streaming_active_,
                   accumulated_stream_transcription_, engineVars, log>>

\* finishStream: the final callback with the accumulated transcript
FinishFinalCallback ==
    LET t == "control" IN
    /\ th[t].pc = "final_cb"
    /\ log' = IF stt_final_result_cb_ # NullCb
              THEN Append(log, FinalEvent("finishStream", stt_final_result_cb_,
                                          FinishTranscript(accumulated_stream_transcription_)))
              ELSE log
    /\ th' = Goto(t, "reset")
    /\ UNCHANGED <<service, ctx_, user_vocabulary_, streamVars, engineVars, lastOp>>

\* finishStream: reset the stream state and return true
FinishReset ==
    LET t == "control" IN
    /\ th[t].pc = "reset"
    /\ is_streaming_active_' = FALSE
    /\ stt_partial_result_cb_' = NullCb
    /\ stt_final_result_cb_' = NullCb
    /\ accumulated_stream_transcription_' = <<>>
    /\ lastOp' = Op("finishStream", TRUE, th[t].active0, NoArg)
    /\ th' = Return(t)
    /\ UNCHANGED <<service, ctx_, user_vocabulary_, stream_audio_buffer_, current_stream_params_,
                   engineVars, log>>

\* the control thread opens the object and one stream
ControlInitialize == th["control"].pc = "idle" /\ ~ctx_ /\ Initialize
ControlStartStream == th["control"].pc = "idle" /\ log = <<>> /\ StartStream

NextConc ==
    \/ ControlInitialize
    \/ ControlStartStream
    \/ \E audio_chunk \in Chunks : FeedEnter(audio_chunk)
    \/ FinishEnter
    \/ \E t \in Threads : EngineBegin(t)
    \/ \E t \in Threads : EngineReport(t)
    \/ \E t \in Threads : EngineReturn(t)
    \/ FeedFailFlag
    \/ FeedFailCallback
    \/ FeedClear
    \/ FinishFinalCallback
    \/ FinishReset

SpecConc == Init /\ [][NextConc]_vars

\* ---- one thread, calls made from callbacks: the partial callback runs   ----
\* ---- inside processAudioChunk and may itself call finishStream; the     ----
\* ---- nested call (the "control" locals) returns before the outer resumes ----
Quiet(t) == th[t].pc = "idle"
InPartialCallback ==
    /\ th["capture"].pc = "in_engine"
    /\ log # <<>>
    /\ log[Len(log)].type = "partial"

NestedInitialize == Quiet("capture") /\ ControlInitialize
NestedStartStream == Quiet("capture") /\ ControlStartStream
NestedFeedEnter == Quiet("control") /\ \E audio_chunk \in Chunks : FeedEnter(audio_chunk)
NestedFeedEngineBegin == Quiet("control") /\ EngineBegin("capture")
NestedFeedEngineReport == Quiet("control") /\ EngineReport("capture")
NestedFeedEngineReturn == Quiet("control") /\ EngineReturn("capture")
NestedFeedFailFlag == Quiet("control") /\ FeedFailFlag
NestedFeedFailCallback == Quiet("control") /\ FeedFailCallback
NestedFeedClear == Quiet("control") /\ FeedClear
NestedFinishEnter == (Quiet("capture") \/ InPartialCallback) /\ FinishEnter

NextNested ==
    \/ NestedInitialize
    \/ NestedStartStream
    \/ NestedFeedEnter
    \/ NestedFeedEngineBegin
    \/ NestedFeedEngineReport
    \/ NestedFeedEngineReturn
    \/ NestedFeedFailFlag
    \/ NestedFeedFailCallback
    \/ NestedFeedClear
    \/ NestedFinishEnter
    \/ EngineBegin("control")
    \/ EngineReport("control")
    \/ EngineReturn("control")
    \/ FinishFinalCallback
    \/ FinishReset

SpecNested == Init /\ [][NextNested]_vars

\* ---- one processAudioChunk at a time, its pass followed report by report ----
EngineBeginPass ==
    LET t == "capture" IN
    /\ th[t].pc = "call_engine"
    /\ \E out \in PassOutcomes :
          th' = [th EXCEPT ![t].pc = "in_engine", ![t].out = out, ![t].k = 1,
                           ![t].audio = stream_audio_buffer_]
    /\ result_all' = <<>>
    /\ g_last_initial_prompt_for_test' = th[t].prompt
    /\ log' = Append(log, PassEvent(HandlerOf(t), th[t].no_context, stream_audio_buffer_))
    /\ UNCHANGED <<service, ctx_, user_vocabulary_, streamVars, lastOp>>

NextPass ==
    \/ ControlInitialize
    \/ ControlStartStream
    \/ \E audio_chunk \in Chunks : FeedEnter(audio_chunk)
    \/ EngineBeginPass
    \/ EngineReport("capture")
    \/ EngineReturn("capture")
    \/ FeedFailFlag
    \/ FeedFailCallback
    \/ FeedClear

SpecPass == Init /\ [][NextPass]_vars

\* ---- one thread, calls made from the partial callback, which may call ----
\* ---- setUserVocabulary as well as finishStream                         ----
ReentrantSetUserVocabulary ==
    /\ Quiet("control")
    /\ Quiet("capture") \/ InPartialCallback
    /\ SetUserVocabulary

NextReentrant ==
    \/ NestedInitialize
    \/ NestedStartStream
    \/ ReentrantSetUserVocabulary
    \/ NestedFeedEnter
    \/ NestedFeedEngineBegin
    \/ NestedFeedEngineReport
    \/ NestedFeedEngineReturn
    \/ NestedFeedFailFlag
    \/ NestedFeedFailCallback
    \/ NestedFeedClear
    \/ NestedFinishEnter
    \/ EngineBegin("control")
    \/ EngineReport("control")
    \/ EngineReturn("control")
    \/ FinishFinalCallback
    \/ FinishReset

SpecReentrant == Init /\ [][NextReentrant]_vars

\* ---- one thread, calls made from the partial callback of a              ----
\* ---- processAudioChunk pass: the callback may feed a further chunk or   ----
\* ---- finish the stream while the chunk of the running pass is still in ----
\* ---- the buffer; such a call runs to its end inside the callback       ----
PartialCbProcessAudioChunk == InPartialCallback /\ ProcessAudioChunk
PartialCbFinishStream == InPartialCallback /\ FinishStream
QuietProcessAudioChunk == Quiet("capture") /\ ProcessAudioChunk
QuietFinishStream == Quiet("capture") /\ FinishStream

NextPartialCb ==
    \/ NestedInitialize
    \/ NestedStartStream
    \/ NestedFeedEnter
    \/ NestedFeedEngineBegin
    \/ NestedFeedEngineReport
    \/ NestedFeedEngineReturn
    \/ NestedFeedFailFlag
    \/ NestedFeedFailCallback
    \/ NestedFeedClear
    \/ PartialCbProcessAudioChunk
    \/ PartialCbFinishStream
    \/ QuietProcessAudioChunk
    \/ QuietFinishStream

SpecPartialCb == Init /\ [][NextPartialCb]_vars

\* ---- one thread, calls made from the final callback of finishStream:    ----
\* ---- it runs before finishStream resets the stream and may itself call ----
\* ---- processAudioChunk, finishStream or startStream; such a call runs  ----
\* ---- to its end inside the callback                                    ----
InFinalCallback ==
    /\ th["control"].pc = "reset"
    /\ stt_final_result_cb_ # NullCb

FinalCbFeed == Quiet("control") /\ ProcessAudioChunk
FinalCbProcessAudioChunk == InFinalCallback /\ ProcessAudioChunk
FinalCbFinishStream == InFinalCallback /\ FinishStream
FinalCbStartStream == InFinalCallback /\ StartStream

NextFinalCb ==
    \/ NestedInitialize
    \/ NestedStartStream
    \/ FinalCbFeed
    \/ NestedFinishEnter
    \/ FinishFinalCallback
    \/ FinalCbProcessAudioChunk
    \/ FinalCbFinishStream
    \/ FinalCbStartStream
    \/ FinishReset

SpecFinalCb == Init /\ [][NextFinalCb]_vars

\* ---- the Dart binding: the calls of CactusSTTService ----
isInitialized == ctx_
AlreadyStreamingUnchecked(svc) == FALSE
AlreadyStreaming(svc) == svc._isStreaming

\* the C stream functions hand the call to the STT behind the context
cactus_stt_init(loaded) == initialize(loaded)
cactus_stt_stream_start_c(params) ==
    startStream(params, "_staticPartialCallbackDispatcher", "_staticFinalCallbackDispatcher")
cactus_stt_stream_feed_audio_c(samples) == processAudioChunk(samples)
cactus_stt_stream_finish_c == finishStream
nativeUnchanged == UNCHANGED <<ctx_, user_vocabulary_, streamVars, engineVars, log, lastOp>>

_staticPartialCallbackDispatcher(svc, transcript) ==
    IF ~svc._partialTranscriptStreamController.isClosed
    THEN [svc EXCEPT !._partialTranscriptStreamController.added = Append(@, transcript)]
    ELSE svc

_staticFinalCallbackDispatcher(svc, transcript) ==
    LET completed == IF ~svc._finalTranscriptCompleter.isCompleted
                     THEN [svc EXCEPT !._finalTranscriptCompleter = complete(@, transcript)]
                     ELSE svc
    IN IF ~completed._partialTranscriptStreamController.isClosed
       THEN [completed EXCEPT !._partialTranscriptStreamController = close(@)]
       ELSE completed

\* the callbacks a native call invoked, in order
RECURSIVE Dispatch(_, _)
Dispatch(svc, events) ==
    IF events = <<>> THEN svc
    ELSE LET e == Head(events)
             next == IF e.type = "partial"
                     THEN _staticPartialCallbackDispatcher(svc, e.text)
                     ELSE IF e.type = "final"
                     THEN _staticFinalCallbackDispatcher(svc, e.text)
                     ELSE svc
         IN Dispatch(next, Tail(events))

serviceInitialize ==
    IF isInitialized
    THEN /\ service' = [service EXCEPT !.gave = Gave("initialize", "value", <<"true">>)]
         /\ nativeUnchanged
    ELSE /\ \E loaded \in BOOLEAN : cactus_stt_init(loaded)
         /\ service' = [service EXCEPT !.gave = Gave("initialize", "value",
                                                     IF ctx_' THEN <<"true">> ELSE <<"false">>)]

startStreamingSTT(params, onStreamError) ==
    IF AlreadyStreaming(service)
    THEN /\ service' = [service EXCEPT !.gave = Gave("startStreamingSTT", "error", NoArg)]
         /\ nativeUnchanged
    ELSE IF ~isInitialized
    THEN /\ service' = [service EXCEPT !.gave = Gave("startStreamingSTT", "error", NoArg)]
         /\ nativeUnchanged
    ELSE /\ service.created < MaxStreams
         /\ cactus_stt_stream_start_c(params)
         /\ LET id == service.created + 1
                prepared == [service EXCEPT
                                !._onStreamError = onStreamError,
                                !._partialTranscriptStreamController = StreamController(id),
                                !._finalTranscriptCompleter = Completer(id),
                                !.created = id]
            IN service' =
                  IF lastOp'.ret
                  THEN [prepared EXCEPT !._isStreaming = TRUE,
                                        !.gave = Gave("startStreamingSTT", "value", NoArg)]
                  ELSE [prepared EXCEPT
                           !._isStreaming = FALSE,
                           !._partialTranscriptStreamController = close(@),
                           !._finalTranscriptCompleter = completeError(@),
                           !.gave = Gave("startStreamingSTT", "error", NoArg)]

feedAudioChunk(pcmF32Samples) ==
    IF ~service._isStreaming \/ ~isInitialized
    THEN /\ service' = [service EXCEPT !.gave = Gave("feedAudioChunk", "error", NoArg)]
         /\ nativeUnchanged
    ELSE IF pcmF32Samples = <<>>
    THEN /\ service' = [service EXCEPT !.gave = Gave("feedAudioChunk", "value", NoArg)]
         /\ nativeUnchanged
    ELSE /\ cactus_stt_stream_feed_audio_c(pcmF32Samples)
         /\ service' = [Dispatch(service, NewEvents) EXCEPT
                           !.gave = Gave("feedAudioChunk",
                                         IF lastOp'.ret THEN "value" ELSE "error", NoArg)]

stopStreamingSTT ==
    IF ~service._isStreaming \/ ~isInitialized
    THEN /\ service' =
                IF /\ service._finalTranscriptCompleter.id # 0
                   /\ ~service._finalTranscriptCompleter.isCompleted
                THEN [service EXCEPT !._finalTranscriptCompleter = completeError(@),
                                     !.gave = Gave("stopStreamingSTT", "error", NoArg)]
                ELSE IF service._finalTranscriptCompleter.id = 0
                THEN [service EXCEPT !.gave = Gave("stopStreamingSTT", "error", NoArg)]
                ELSE [service EXCEPT
                         !.gave = FutureOf("stopStreamingSTT", service._finalTranscriptCompleter)]
         /\ nativeUnchanged
    ELSE /\ cactus_stt_stream_finish_c
         /\ LET marked == [service EXCEPT !._isStreaming = FALSE]
                heard == Dispatch(marked, NewEvents)
                failed == IF ~lastOp'.ret /\ ~heard._finalTranscriptCompleter.isCompleted
                          THEN [heard EXCEPT !._finalTranscriptCompleter = completeError(@)]
                          ELSE heard
            IN service' = [failed EXCEPT
                              !.gave = FutureOf("stopStreamingSTT",
                                                failed._finalTranscriptCompleter)]

ServiceInitialize == serviceInitialize /\ UNCHANGED th
StartStreamingSTT ==
    /\ \E params \in STTAdvancedParams, onStreamError \in StreamErrorHandlers :
          startStreamingSTT(params, onStreamError)
    /\ UNCHANGED th
FeedAudioChunk == /\ \E pcmF32Samples \in Chunks : feedAudioChunk(pcmF32Samples)
                  /\ UNCHANGED th
StopStreamingSTT == stopStreamingSTT /\ UNCHANGED th

NextService ==
    \/ ServiceInitialize
    \/ StartStreamingSTT
    \/ FeedAudioChunk
    \/ StopStreamingSTT

SpecService == Init /\ [][NextService]_vars

\* ---- the Swift CactusSTTService over the same C API ----
\* the service after init(): no context, no stream. delivered lists the
\* results the onFinalResult closure of the current session was called with,
\* threw is the error the latest call threw, inFinalClosure holds while the
\* onFinalResult closure called by cFinalCallback is running
SwiftCactusSTTService ==
    [sttContext |-> FALSE,
     isStreaming |-> FALSE,
     onPartialResultStreamingCallback |-> NullCb,
     onFinalResultStreamingCallback |-> NullCb,
     streamUserSelfData |-> FALSE,
     inFinalClosure |-> FALSE,
     delivered |-> <<>>,
     threw |-> "none"]

InitSwift ==
    /\ NativeInit
    /\ service = SwiftCactusSTTService

\* onFinalResultStreamingCallback?(result)
DeliverFinal(svc, result) ==
    IF svc.onFinalResultStreamingCallback # NullCb
    THEN [svc EXCEPT !.delivered = Append(@, result)]
    ELSE svc

\* the clean-up every ending of a stream makes
StreamCleanUp(svc) ==
    [svc EXCEPT !.streamUserSelfData = FALSE,
                !.isStreaming = FALSE,
                !.onPartialResultStreamingCallback = NullCb,
                !.onFinalResultStreamingCallback = NullCb]

\* cFinalCallback, whose transcript is a C string or nil
cFinalCallback(svc, transcriptCString) ==
    StreamCleanUp(DeliverFinal(svc, IF transcriptCString # NullText
                                    THEN "success" ELSE "transcriptionFailed"))

\* the final callbacks a native call invoked, as the service hears them;
\* cPartialCallback changes no field of the service
RECURSIVE SwiftDispatch(_, _)
SwiftDispatch(svc, events) ==
    IF events = <<>> THEN svc
    ELSE LET e == Head(events)
             next == IF e.type = "final" THEN cFinalCallback(svc, e.text) ELSE svc
         IN SwiftDispatch(next, Tail(events))

initSTT ==
    /\ ~service.sttContext
    /\ \E loaded \in BOOLEAN : cactus_stt_init(loaded)
    /\ service' = [service EXCEPT !.sttContext = ctx_', !.threw = "none"]

swiftStartStreamingSTT(params) ==
    IF ~service.sttContext
    THEN /\ service' = [service EXCEPT !.threw = "notInitialized"]
         /\ nativeUnchanged
    ELSE IF service.isStreaming
    THEN /\ service' = [service EXCEPT !.threw = "streamAlreadyActive"]
         /\ nativeUnchanged
    ELSE /\ startStream(params, "cPartialCallback", "cFinalCallback")
         /\ LET stored == [service EXCEPT
                              !.onPartialResultStreamingCallback = "onPartialResult",
                              !.onFinalResultStreamingCallback = "onFinalResult",
                              !.streamUserSelfData = TRUE,
                              !.delivered = <<>>]
            IN service' = IF lastOp'.ret
                          THEN [stored EXCEPT !.isStreaming = TRUE, !.threw = "none"]
                          ELSE [StreamCleanUp(stored) EXCEPT !.threw = "streamStartFailed"]

swiftFeedAudioChunk(samples) ==
    IF ~service.sttContext
    THEN /\ service' = [service EXCEPT !.threw = "notInitialized"]
         /\ nativeUnchanged
    ELSE IF ~service.isStreaming
    THEN /\ service' = [service EXCEPT !.threw = "streamNotActive"]
         /\ nativeUnchanged
    ELSE /\ cactus_stt_stream_feed_audio_c(samples)
         /\ LET heard == SwiftDispatch(service, NewEvents)
            IN service' =
                  IF lastOp'.ret
                  THEN [heard EXCEPT !.threw = "none"]
                  ELSE [StreamCleanUp(DeliverFinal(heard, "streamFeedAudioFailed"))
                           EXCEPT !.threw = "streamFeedAudioFailed"]

\* stopStreamingSTT when the service has no context or no stream
StopWithoutStream(svc) ==
    IF ~svc.sttContext
    THEN [StreamCleanUp(IF svc.isStreaming THEN DeliverFinal(svc, "notInitialized") ELSE svc)
             EXCEPT !.threw = "none"]
    ELSE [StreamCleanUp(DeliverFinal(svc, "streamNotActive")) EXCEPT !.threw = "none"]

\* stopStreamingSTT when cactus_stt_stream_finish_c returned false
StopAfterFailedFinish(svc) ==
    [StreamCleanUp(DeliverFinal(svc, "streamFinishFailed")) EXCEPT !.threw = "none"]

\* stopStreamingSTT run to its end: the call a closure makes
swiftStopStreamingSTT ==
    IF ~service.sttContext \/ ~service.isStreaming
    THEN /\ service' = StopWithoutStream(service)
         /\ nativeUnchanged
    ELSE /\ cactus_stt_stream_finish_c
         /\ LET heard == SwiftDispatch(service, NewEvents)
            IN service' = IF lastOp'.ret
                          THEN [heard EXCEPT !.threw = "none"]
                          ELSE StopAfterFailedFinish(heard)

SwiftQuiet == Quiet("capture") /\ Quiet("control") /\ ~service.inFinalClosure

InitSTT == SwiftQuiet /\ initSTT /\ UNCHANGED th
SwiftStartStreamingSTT ==
    /\ SwiftQuiet
    /\ \E params \in STTAdvancedParams : swiftStartStreamingSTT(params)
    /\ UNCHANGED th
SwiftFeedAudioChunk ==
    /\ SwiftQuiet
    /\ \E samples \in Chunks : swiftFeedAudioChunk(samples)
    /\ UNCHANGED th

\* stopStreamingSTT up to the final callback of cactus_stt_stream_finish_c
SwiftStopEnter ==
    /\ SwiftQuiet
    /\ IF ~service.sttContext \/ ~service.isStreaming
       THEN /\ service' = StopWithoutStream(service)
            /\ nativeUnchanged
            /\ UNCHANGED th
       ELSE IF NotStreaming(ctx_, is_streaming_active_)
       THEN /\ lastOp' = Op("finishStream", FALSE, is_streaming_active_, NoArg)
            /\ service' = StopAfterFailedFinish(service)
            /\ UNCHANGED <<ctx_, user_vocabulary_, streamVars, engineVars, log, th>>
       ELSE FinishEnter

\* finishStream invokes the final callback: cFinalCallback calls the
\* onFinalResult closure of the user
SwiftFinalClosureEnter ==
    LET t == "control" IN
    /\ th[t].pc = "final_cb"
    /\ ~service.inFinalClosure
    /\ IF stt_final_result_cb_ # NullCb
       THEN /\ log' = Append(log, FinalEvent("finishStream", stt_final_result_cb_,
                                             FinishTranscript(accumulated_stream_transcription_)))
            /\ service' = [DeliverFinal(service, "success") EXCEPT !.inFinalClosure = TRUE]
       ELSE UNCHANGED <<log, service>>
    /\ th' = Goto(t, "reset")
    /\ UNCHANGED <<ctx_, user_vocabulary_, streamVars, engineVars, lastOp>>

\* the onFinalResult closure calls stopStreamingSTT
SwiftNestedStop ==
    /\ service.inFinalClosure
    /\ swiftStopStreamingSTT
    /\ UNCHANGED th

\* the closure returns: cFinalCallback cleans up, finishStream resets the
\* stream state and returns true, stopStreamingSTT returns
SwiftFinalClosureReturn ==
    LET t == "control" IN
    /\ th[t].pc = "reset"
    /\ service' = IF service.inFinalClosure
                  THEN [StreamCleanUp(service) EXCEPT !.inFinalClosure = FALSE,
                                                      !.threw = "none"]
                  ELSE [service EXCEPT !.threw = "none"]
    /\ is_streaming_active_' = FALSE
    /\ stt_partial_result_cb_' = NullCb
    /\ stt_final_result_cb_' = NullCb
    /\ accumulated_stream_transcription_' = <<>>
    /\ lastOp' = Op("finishStream", TRUE, th[t].active0, NoArg)
    /\ th' = Return(t)
    /\ UNCHANGED <<ctx_, user_vocabulary_, stream_audio_buffer_, current_stream_params_,
                   engineVars, log>>

NextSwift ==
    \/ InitSTT
    \/ SwiftStartStreamingSTT
    \/ SwiftFeedAudioChunk
    \/ SwiftStopEnter
    \/ SwiftFinalClosureEnter
    \/ SwiftNestedStop
    \/ SwiftFinalClosureReturn

SpecSwift == InitSwift /\ [][NextSwift]_vars

\* ---- reading the log of a session ----
RECURSIVE Flatten(_)
Flatten(ss) == IF ss = <<>> THEN <<>> ELSE Head(ss) \o Flatten(Tail(ss))

TextsOf(events) == [i \in 1..Len(events) |-> events[i].text]
FinalEvents == EventsOf(log, "final")
PartialEvents == EventsOf(log, "partial")
PassEvents == EventsOf(log, "pass")
PassEndEvents == EventsOf(log, "pass_end")
SessionOpened == log # <<>>
SessionHasFinalCb == SessionOpened /\ log[1].final_cb # NullCb
SessionHasPartialCb == SessionOpened /\ log[1].partial_cb # NullCb
FeedPassFailed ==
    \E i \in 1..Len(log) : /\ log[i].type = "pass_end"
                           /\ log[i].by = "processAudioChunk"
                           /\ log[i].rc # 0
AllPassesSucceeded == \A i \in 1..Len(PassEndEvents) : PassEndEvents[i].rc = 0
\* everything the engine recognized in the session, in order
RecognizedText == Flatten([i \in 1..Len(PassEndEvents) |-> Flatten(PassEndEvents[i].segs)])
FeedOrFinish == {"processAudioChunk", "finishStream"}

\* ---- claims ----

\* C1: a session opened by a successful startStream with a non-null final
\* callback never sees two invocations of the final callback, and once feed or
\* finish has ended it (the session is no longer active) it has seen exactly one.
C1_FinalExactlyOnce ==
    SessionHasFinalCb =>
        /\ Len(FinalEvents) <= 1
        /\ (~is_streaming_active_ => Len(FinalEvents) = 1)

\* C1 witness: a failed feed pass has torn the session down, the final callback
\* ran, and a later finishStream was turned away.
C1_Witness ==
    /\ SessionHasFinalCb /\ FeedPassFailed
    /\ lastOp.name = "finishStream" /\ ~lastOp.ret
    /\ Len(FinalEvents) = 1

\* C2: a startStream call made while a stream is active returns false and
\* leaves buffer, transcript, params, both callbacks and the active flag as
\* they were; the session that was open stays the one open.
C2_StartWhileActiveRejected ==
    [][(lastOp'.name = "startStream" /\ is_streaming_active_) =>
           /\ lastOp'.ret = FALSE
           /\ UNCHANGED <<streamVars, log>>
           /\ is_streaming_active_']_vars

\* C2 witness: startStream has just been refused on an active stream that
\* already holds accumulated text.
C2_Witness ==
    /\ lastOp.name = "startStream" /\ lastOp.active0 /\ ~lastOp.ret
    /\ is_streaming_active_
    /\ accumulated_stream_transcription_ # <<>>

\* C3: processAudioChunk and finishStream called while no stream is active
\* return false, invoke no callback, make no engine call and leave buffer,
\* transcript and state as they were.
C3_IdleFeedFinishRejected ==
    [][(lastOp'.name \in FeedOrFinish /\ ~is_streaming_active_) =>
           /\ lastOp'.ret = FALSE
           /\ UNCHANGED <<streamVars, log, engineVars>>]_vars

\* C3 witness: processAudioChunk with a non-empty chunk has just been refused
\* on an initialized object whose stream was never started.
C3_Witness ==
    /\ ctx_ /\ ~SessionOpened
    /\ lastOp.name = "processAudioChunk" /\ lastOp.arg # <<>> /\ ~lastOp.ret

\* C4: once a recognition pass inside processAudioChunk has failed, the stream
\* is inactive, the final callback of the session (when one was given) has run
\* exactly once, from processAudioChunk, with the empty transcript that marks
\* the error, nothing was delivered after it, and every processAudioChunk or
\* finishStream call since then (the failing one included) returned false.
C4_FeedFailureTearsDown ==
    FeedPassFailed =>
        /\ ~is_streaming_active_
        /\ (lastOp.name \in FeedOrFinish => lastOp.ret = FALSE)
        /\ log[Len(log) - (IF SessionHasFinalCb THEN 1 ELSE 0)].type = "pass_end"
        /\ SessionHasFinalCb =>
              /\ Len(FinalEvents) = 1
              /\ log[Len(log)] = FinalEvent("processAudioChunk", log[1].final_cb, <<>>)

\* C4 witness: after a failed feed pass that had already delivered a partial
\* result, a further processAudioChunk with audio was turned away.
C4_Witness ==
    /\ FeedPassFailed /\ SessionHasFinalCb
    /\ Len(PartialEvents) > 0
    /\ lastOp.name = "processAudioChunk" /\ ~lastOp.active0 /\ lastOp.arg # <<>>

\* C5 (as claimed): after a feed pass failed, the buffer is empty, the
\* transcript is empty and both callbacks are released.
C5_FeedFailureClearsSession ==
    FeedPassFailed =>
        /\ stream_audio_buffer_ = <<>>
        /\ accumulated_stream_transcription_ = <<>>
        /\ stt_partial_result_cb_ = NullCb
        /\ stt_final_result_cb_ = NullCb

\* C6 (as claimed): in a session started with no_context = true, every
\* recognition pass after the first is invoked with no_context = false.
C6_LaterPassesCarryContext ==
    (SessionOpened /\ log[1].params.no_context) =>
        \A i \in 2..Len(PassEvents) : PassEvents[i].no_context = FALSE

\* C7: in a session started with both callbacks, whose passes all succeeded
\* and which finishStream ended, the transcript given to the final callback is
\* the concatenation, in delivery order, of the texts given to the partial
\* callback.
C7_FinalIsConcatOfPartials ==
    (SessionHasPartialCb /\ AllPassesSucceeded /\ Len(FinalEvents) > 0) =>
        FinalEvents[1].text = Flatten(TextsOf(PartialEvents))

\* C7 witness: finishStream ended a session of two successful passes that
\* delivered different partial texts.
C7_Witness ==
    /\ SessionHasPartialCb /\ SessionHasFinalCb /\ AllPassesSucceeded
    /\ lastOp.name = "finishStream" /\ lastOp.ret
    /\ Len(PassEndEvents) = 2
    /\ Len(PartialEvents) >= 2
    /\ PartialEvents[1].text # PartialEvents[Len(PartialEvents)].text
    /\ Len(FinalEvents) = 1

\* C8: processAudioChunk with an empty chunk on an active stream returns true,
\* runs no recognition pass, invokes no callback and leaves buffer, transcript
\* and state as they were.
C8_EmptyChunkNoOp ==
    [][(lastOp'.name = "processAudioChunk" /\ lastOp'.arg = <<>> /\ is_streaming_active_) =>
           /\ lastOp'.ret = TRUE
           /\ UNCHANGED <<streamVars, log, engineVars>>]_vars

\* C8 witness: an empty chunk was accepted on an active stream that holds
\* accumulated text.
C8_Witness ==
    /\ lastOp.name = "processAudioChunk" /\ lastOp.arg = <<>> /\ lastOp.ret
    /\ is_streaming_active_
    /\ accumulated_stream_transcription_ # <<>>

\* C9: a finishStream call on an active stream runs at most one recognition
\* pass, gives the final callback (when one was given) exactly one invocation,
\* the last event of the session, carrying everything recognized in the
\* session, and returns with the stream inactive, the buffer and transcript
\* empty and both callbacks released.
C9_FinishDeliversAndResets ==
    (lastOp.name = "finishStream" /\ lastOp.active0) =>
        /\ Len(SelectSeq(PassEvents, LAMBDA e : e.by = "finishStream")) <= 1
        /\ ~is_streaming_active_
        /\ stream_audio_buffer_ = <<>>
        /\ accumulated_stream_transcription_ = <<>>
        /\ stt_partial_result_cb_ = NullCb
        /\ stt_final_result_cb_ = NullCb
        /\ SessionHasFinalCb =>
              /\ Len(FinalEvents) = 1
              /\ log[Len(log)] = FinalEvent("finishStream", log[1].final_cb, RecognizedText)

\* C9 witness: finishStream ended a session that had recognized text and had
\* no partial callback to report it to.
C9_Witness ==
    /\ lastOp.name = "finishStream" /\ lastOp.active0
    /\ SessionHasFinalCb /\ ~SessionHasPartialCb
    /\ RecognizedText # <<>>

\* C10 (as claimed): when the recognition pass inside finishStream failed, the
\* final callback of the session has run exactly once from finishStream and the
\* caller was told of the failure: the invocation carries the error mark of
\* this interface (the empty transcript) or finishStream returned false.
FinishPassFailed ==
    \E i \in 1..Len(log) : /\ log[i].type = "pass_end"
                           /\ log[i].by = "finishStream"
                           /\ log[i].rc # 0
FinalsByFinish == SelectSeq(FinalEvents, LAMBDA e : e.by = "finishStream")
C10_FailedFinishCarriesError ==
    (lastOp.name = "finishStream" /\ lastOp.active0 /\ FinishPassFailed /\ SessionHasFinalCb) =>
        /\ Len(FinalsByFinish) = 1
        /\ \/ FinalsByFinish[1].text = <<>>
           \/ lastOp.ret = FALSE

\* ---- a call seen from its thread: the step on which it returns ----
Returns(t) == th[t].pc # "idle" /\ th'[t].pc = "idle"
MadePass(t) == th[t].k >= 1
PassEndsBy(handler, rcs) ==
    SelectSeq(PassEndEvents, LAMBDA e : e.by = handler /\ e.rc \in rcs)

\* C11 (as claimed): a processAudioChunk or finishStream call whose
\* whisper_full call returned non-zero returns false to its caller.
C11_EngineFailureSurfaced ==
    [][\A t \in Threads :
           (Returns(t) /\ MadePass(t) /\ th[t].out.rc # 0) => lastOp'.ret = FALSE]_vars

\* C12: a processAudioChunk or finishStream call whose whisper_full call
\* returned zero leaves the audio buffer empty on the step it returns.
C12_BufferEmptyAfterSuccessfulPass ==
    [][\A t \in Threads :
           (Returns(t) /\ MadePass(t) /\ th[t].out.rc = 0) =>
               stream_audio_buffer_' = <<>>]_vars

\* C12 witness: a processAudioChunk call and a finishStream call have both
\* returned after a successful pass of their own that produced a segment, and
\* the buffer is empty.
C12_Witness ==
    /\ Quiet("capture") /\ Quiet("control")
    /\ lastOp.name = "processAudioChunk" /\ lastOp.ret /\ lastOp.arg # <<>>
    /\ \E i \in 1..Len(PassEndsBy("finishStream", {0})) :
           PassEndsBy("finishStream", {0})[i].segs # <<>>
    /\ \E i \in 1..Len(PassEndsBy("processAudioChunk", {0})) :
           PassEndsBy("processAudioChunk", {0})[i].segs # <<>>
    /\ stream_audio_buffer_ = <<>>

\* C13 (as claimed): whenever no call is executing, the audio buffer is
\* empty, after a failed recognition pass as much as after a successful one.
C13_BufferEmptyAtRest ==
    (Quiet("capture") /\ Quiet("control")) => stream_audio_buffer_ = <<>>

\* C14: startStream called with no stream active and the context loaded
\* returns true with the stream active, the buffer and the transcript empty
\* and the given params and callbacks stored; it makes no engine call and
\* invokes no callback (the session's record holds the start alone).
C14_StartOpensSession ==
    [][(lastOp'.name = "startStream" /\ ~is_streaming_active_ /\ ctx_) =>
           /\ lastOp'.ret = TRUE
           /\ is_streaming_active_'
           /\ stream_audio_buffer_' = <<>>
           /\ accumulated_stream_transcription_' = <<>>
           /\ Len(log') = 1
           /\ log'[1] = StartEvent(current_stream_params_', stt_partial_result_cb_',
                                   stt_final_result_cb_')
           /\ UNCHANGED engineVars]_vars

\* C14 witness: a stream was started, with both callbacks and params other
\* than the previous ones, on an object whose engine had already run a pass
\* of an earlier session.
C14_Witness ==
    /\ lastOp.name = "startStream" /\ lastOp.ret /\ ~lastOp.active0
    /\ log = <<StartEvent([DefaultParams EXCEPT !.no_context = FALSE], "on_partial", "on_final")>>
    /\ current_stream_params_ = log[1].params
    /\ result_all # <<>>
    /\ is_streaming_active_

\* C15: startStream called on an object without a context returns false,
\* leaves the stream inactive, stores neither params nor callbacks, invokes no
\* callback and makes no engine call.
C15_StartWithoutContextRejected ==
    [][(lastOp'.name = "startStream" /\ ~ctx_) =>
           /\ lastOp'.ret = FALSE
           /\ ~is_streaming_active_'
           /\ UNCHANGED <<streamVars, log, engineVars, ctx_>>]_vars

\* C15 witness: startStream was refused on an object whose initialize had
\* failed to load the model.
C15_Witness ==
    /\ lastOp.name = "startStream" /\ ~lastOp.ret /\ ~lastOp.active0
    /\ ~ctx_
    /\ ~is_streaming_active_ /\ ~SessionOpened

\* C16: the first recognition pass of a session is invoked with the
\* no_context value given to startStream, be it true or false.
C16_FirstPassHonoursNoContext ==
    (SessionOpened /\ Len(PassEvents) >= 1) =>
        PassEvents[1].no_context = log[1].params.no_context

\* C16 witness: a session started with no_context = true has run its first
\* pass, which found no segment, with no_context = true.
C16_Witness ==
    /\ SessionOpened /\ log[1].params.no_context
    /\ Len(PassEvents) = 1 /\ PassEvents[1].no_context
    /\ Len(PassEndEvents) = 1 /\ PassEndEvents[1].segs = <<>>
    /\ result_all = <<>>
    /\ lastOp.name = "processAudioChunk" /\ lastOp.ret

IsPrefix(s, t) == Len(s) <= Len(t) /\ SubSeq(t, 1, Len(s)) = s
StartSucceeds == lastOp'.name = "startStream" /\ lastOp'.ret
FinishEnds == lastOp'.name = "finishStream" /\ is_streaming_active_

\* C17: a successful startStream leaves the accumulated transcript empty, and
\* every other step except the finishStream that ends the session leaves a
\* transcript that has the previous one as a prefix: text is only appended
\* while the session lasts.
C17_TranscriptAppendOnly ==
    [][/\ StartSucceeds => accumulated_stream_transcription_' = <<>>
       /\ (~StartSucceeds /\ ~FinishEnds) =>
              IsPrefix(accumulated_stream_transcription_,
                       accumulated_stream_transcription_')]_vars

\* C17 witness: an active session has appended "a" in one pass and "b" in
\* the next.
C17_Witness ==
    /\ is_streaming_active_
    /\ Len(PassEndEvents) = 2
    /\ PassEndEvents[1].segs = << <<"a">> >> /\ PassEndEvents[2].segs = << <<"b">> >>
    /\ accumulated_stream_transcription_ = <<"a", "b">>

\* the index of the latest "pass" event of l, 0 when there is none
RECURSIVE LastPassIndex(_)
LastPassIndex(l) ==
    IF l = <<>> THEN 0
    ELSE IF l[Len(l)].type = "pass" THEN Len(l)
    ELSE LastPassIndex(SubSeq(l, 1, Len(l) - 1))
\* what l holds after its latest "pass" event
SincePass(l) == SubSeq(l, LastPassIndex(l) + 1, Len(l))
IsSuffix(s, t) == Len(s) <= Len(t) /\ SubSeq(t, Len(t) - Len(s) + 1, Len(t)) = s

\* a step on which the engine of thread t reports new segments to a stream
\* that is active and has a partial callback
ReportsToPartialCallback(t) ==
    /\ th[t].pc = "in_engine" /\ th'[t].pc = "in_engine"
    /\ th'[t].k = th[t].k + 1
    /\ is_streaming_active_
    /\ stt_partial_result_cb_ # NullCb

\* C18: when the engine reports n_new new segments out of n, the partial
\* callback is invoked for the segments n - n_new .. n - 1 and no other, so
\* that over the reports of a pass every segment has been delivered exactly
\* once and none again.
C18_PartialsOnlyForNewSegments ==
    [][\A t \in Threads : ReportsToPartialCallback(t) =>
           LET n == Len(result_all')
               n_new == th[t].out.split[th[t].k]
               delivered == SubSeq(log', Len(log) + 1, Len(log'))
           IN /\ SubSeq(log', 1, Len(log)) = log
              /\ Len(delivered) = n_new
              /\ \A j \in 1..n_new :
                     /\ delivered[j].type = "partial"
                     /\ delivered[j].text = result_all'[n - n_new + j]
              /\ TextsOf(SincePass(log')) = result_all']_vars

\* C18 witness: the second report of a pass has come in, one new segment
\* out of two, and the stream has a partial callback.
C18_Witness ==
    /\ th["capture"].pc = "in_engine"
    /\ th["capture"].out.split = <<1, 1>>
    /\ th["capture"].k = 3
    /\ result_all = << <<"a">>, <<"b">> >>
    /\ SessionHasPartialCb
    /\ Len(PartialEvents) = 2

\* C19: whenever the partial callback runs, the accumulated transcript
\* already ends with the text it is given; it runs inside a recognition pass,
\* and when a pass is over (in a stream with a partial callback) the texts
\* delivered during it are the segments of that pass, in segment order, all
\* of them.
C19_AppendThenPartialInOrder ==
    /\ \A i \in 1..Len(log) :
           log[i].type = "partial" =>
               /\ IsSuffix(log[i].text, log[i].seen)
               /\ i > 1 /\ log[i - 1].type \in {"pass", "partial"}
    /\ \A i \in 1..Len(log) :
           (log[i].type = "pass_end" /\ SessionHasPartialCb) =>
               LET during == SincePass(SubSeq(log, 1, i - 1))
               IN /\ \A j \in 1..Len(during) : during[j].type = "partial"
                  /\ TextsOf(during) = log[i].segs

\* C19 witness: a pass that reported two segments at once is over, and the
\* partial callback saw the transcript grow from "b" to "ba".
C19_Witness ==
    /\ Len(PassEndEvents) = 1
    /\ Len(PartialEvents) = 2
    /\ th["capture"].out.split = <<2>>
    /\ PartialEvents[1].seen = <<"b">>
    /\ PartialEvents[2].text = <<"a">>
    /\ PartialEvents[2].seen = <<"b", "a">>

CallbackEvents(l) == SelectSeq(l, LAMBDA e : e.type \in {"partial", "final"})

\* C20: a partial or final callback is invoked only by a processAudioChunk or
\* finishStream call made on an active stream: a successful startStream opens
\* a session with no invocation, and every other call (startStream refused,
\* setUserVocabulary, initialize, one-shot processAudio and
\* processAudioWithParams even on an active stream, processAudioChunk and
\* finishStream with no stream active) leaves the record of invocations as
\* it was; between calls nothing is invoked.
C20_CallbacksOnlyInsideFeedFinish ==
    [][(~(lastOp'.name \in FeedOrFinish) \/ ~is_streaming_active_) =>
           IF StartSucceeds THEN CallbackEvents(log') = <<>> ELSE UNCHANGED log]_vars

\* C20 witness: on an active stream that has a partial callback, a one-shot
\* call has just run a pass that produced a segment, and no callback has been
\* invoked in the session.
C20_Witness ==
    /\ lastOp.name = "processAudioWithParams" /\ lastOp.ret /\ lastOp.active0
    /\ is_streaming_active_
    /\ stt_partial_result_cb_ # NullCb /\ stt_final_result_cb_ # NullCb
    /\ result_all # <<>>
    /\ CallbackEvents(log) = <<>>

\* C21 (as claimed): while a stream is active the engine is run only by the
\* passes of that stream: a call other than processAudioChunk and finishStream
\* made between the start and the end of a session leaves the engine's result
\* state and the prompt last handed to it as they were.
C21_EngineExclusiveToSession ==
    [][(is_streaming_active_ /\ ~(lastOp'.name \in FeedOrFinish)) =>
           UNCHANGED engineVars]_vars

\* C22: every recognition pass of a stream, made by processAudioChunk or by
\* finishStream, hands the engine as prompt the user vocabulary as it stands
\* when the pass is made: that vocabulary when it is not empty, the null
\* pointer and never a string of length zero when it is empty. A vocabulary
\* set after a pass is the prompt of the next one.
C22_PromptIsCurrentVocabulary ==
    [][NumPasses(log') > NumPasses(log) =>
           /\ g_last_initial_prompt_for_test' =
                  IF user_vocabulary_ = "" THEN NullPrompt ELSE user_vocabulary_
           /\ g_last_initial_prompt_for_test' # ""]_vars

\* C22 witness: a processAudioChunk pass was made with the null prompt; from
\* its partial callback the vocabulary was set and finishStream called, and
\* the finishStream pass is running with the new vocabulary as prompt.
C22_Witness ==
    /\ th["capture"].pc = "in_engine" /\ th["capture"].prompt = NullPrompt
    /\ th["control"].pc = "in_engine" /\ th["control"].prompt = "cactus"
    /\ NumPasses(log) = 2
    /\ user_vocabulary_ = "cactus"
    /\ g_last_initial_prompt_for_test = "cactus"

\* C27 (as claimed): for the whole of finishStream the session is in a state
\* other than Active, also while the final callback runs: a processAudioChunk,
\* finishStream or startStream call made from inside the final callback of
\* finishStream returns false, and the final callback is not invoked again.
C27_FinishingIsNotActive ==
    [][(InFinalCallback /\ th' = th) =>
           /\ lastOp'.name \in {"processAudioChunk", "finishStream", "startStream"}
           /\ ~lastOp'.ret
           /\ EventsOf(log', "final") = EventsOf(log, "final")]_vars

\* C23: in serialized use, in a session started with no_context = true, every
\* non-empty processAudioChunk accepted by the active stream makes exactly one
\* recognition pass, and the finishStream that ends the session makes none,
\* returns true, delivers the final callback exactly once over the session
\* (to a session that was given one) and leaves the buffer empty and the
\* stream inactive: after n such feeds whose passes succeed and the finish,
\* the session has seen exactly n passes.
C23_FeedFeedFinishScenario ==
    [][(SessionOpened /\ log[1].params.no_context /\ is_streaming_active_) =>
           /\ (lastOp'.name = "processAudioChunk" /\ lastOp'.arg # <<>>) =>
                  NumPasses(log') = NumPasses(log) + 1
           /\ lastOp'.name = "finishStream" =>
                  /\ lastOp'.ret
                  /\ NumPasses(log') = NumPasses(log)
                  /\ Len(EventsOf(log', "final")) = IF log[1].final_cb # NullCb THEN 1 ELSE 0
                  /\ stream_audio_buffer_' = <<>>
                  /\ ~is_streaming_active_']_vars

\* C23 witness: start with no_context = true, two feeds of one sample of
\* silence each whose passes succeeded with no segment, then finish: two
\* passes, one final callback, the buffer empty and the stream inactive.
C23_Witness ==
    /\ lastOp.name = "finishStream" /\ lastOp.ret /\ lastOp.active0
    /\ log[1].params.no_context
    /\ NumPasses(log) = 2
    /\ \A i \in 1..2 : /\ PassEvents[i].audio = <<"s1">>
                       /\ PassEndEvents[i] = PassEndEvent("processAudioChunk", 0, <<>>)
    /\ Len(FinalEvents) = 1
    /\ stream_audio_buffer_ = <<>>
    /\ ~is_streaming_active_

\* a call that ran to its end in one step, as made between calls or from
\* inside a callback
WholeCall(name) == th' = th /\ lastOp'.name = name

\* C28: a non-empty processAudioChunk accepted by the active stream makes
\* exactly one engine call, over the whole buffer as it stands once the chunk
\* is appended (what was there before, then the chunk; under serialized use
\* the chunk alone); a handler that has entered the engine never enters it
\* again before it returns; finishStream makes at most one engine call, over
\* the whole buffer.
C28_OneEngineCallPerFeed ==
    [][/\ (WholeCall("processAudioChunk") /\ lastOp'.active0 /\ lastOp'.arg # <<>>) =>
              /\ NumPasses(log') = NumPasses(log) + 1
              /\ NewEvents[1].type = "pass"
              /\ NewEvents[1].by = "processAudioChunk"
              /\ NewEvents[1].audio = stream_audio_buffer_ \o lastOp'.arg
       /\ (WholeCall("finishStream") /\ lastOp'.active0) =>
              /\ NumPasses(log') = NumPasses(log) + IF stream_audio_buffer_ # <<>> THEN 1 ELSE 0
              /\ stream_audio_buffer_ # <<>> =>
                     /\ NewEvents[1].type = "pass"
                     /\ NewEvents[1].by = "finishStream"
                     /\ NewEvents[1].audio = stream_audio_buffer_
       /\ (th["capture"].pc = "call_engine" /\ th' # th) =>
              /\ th'["capture"].pc = "in_engine"
              /\ NumPasses(log') = NumPasses(log) + 1
              /\ NewEvents[1].type = "pass"
              /\ NewEvents[1].by = "processAudioChunk"
              /\ NewEvents[1].audio = stream_audio_buffer_
              /\ IsSuffix(th["capture"].chunk, stream_audio_buffer_)
       /\ (th["capture"].pc \notin {"idle", "call_engine"} /\ th' # th) =>
              /\ th'["capture"].pc # "call_engine"
              /\ NumPasses(log') = NumPasses(log)]_vars

\* C28 witness: from the partial callback of a pass over one chunk a second
\* chunk was fed; that call made one pass, over both chunks.
C28_Witness ==
    /\ th["capture"].pc = "in_engine" /\ th["capture"].audio = <<"s1">>
    /\ lastOp.name = "processAudioChunk" /\ lastOp.ret /\ lastOp.active0
    /\ lastOp.arg = <<"s1">>
    /\ NumPasses(log) = 2
    /\ PassEvents[2].by = "processAudioChunk"
    /\ PassEvents[2].audio = <<"s1", "s1">>

\* C29: in serialized use, with no call made from a callback, the audio
\* buffer is empty whenever the stream is active between two calls, so
\* finishStream finds it empty, makes no engine call (the engine's state and
\* the transcript it hands on are as they were) and delivers no partial
\* result; the session's passes are all made by processAudioChunk, one by
\* each non-empty chunk the active stream accepts and none by any other call.
C29_FinishNeverRunsEngine ==
    [][/\ is_streaming_active_ => stream_audio_buffer_ = <<>>
       /\ lastOp'.name = "finishStream" =>
              /\ UNCHANGED engineVars
              /\ NumPasses(log') = NumPasses(log)
              /\ EventsOf(log', "partial") = EventsOf(log, "partial")
       /\ \A i \in 1..Len(log') : log'[i].type = "pass" => log'[i].by = "processAudioChunk"
       /\ ~StartSucceeds =>
              NumPasses(log') = NumPasses(log) +
                  IF /\ lastOp'.name = "processAudioChunk"
                     /\ is_streaming_active_
                     /\ lastOp'.arg # <<>>
                  THEN 1 ELSE 0]_vars

\* C29 witness: a session with a partial callback was fed two non-empty
\* chunks, each recognized with a segment, and finishStream has just ended
\* it: two passes, both by processAudioChunk, and the engine still holds the
\* result of the last feed.
C29_Witness ==
    /\ lastOp.name = "finishStream" /\ lastOp.ret /\ lastOp.active0
    /\ SessionHasPartialCb
    /\ NumPasses(log) = 2
    /\ \A i \in 1..2 : PassEndEvents[i].by = "processAudioChunk" /\ PassEndEvents[i].segs # <<>>
    /\ Len(PartialEvents) = 2
    /\ result_all = PassEndEvents[2].segs
    /\ stream_audio_buffer_ = <<>>

\* C30: a startStream that succeeds leaves the buffer and the transcript
\* empty and stores the callbacks and params it was given, whatever the
\* stream state held before (the audio and transcript left by a session that
\* a failed processAudioChunk tore down included); in the session it opens,
\* the transcript, every text given to the partial callback together with the
\* transcript it saw, and the final transcript hold nothing but what the
\* engine recognized in that session, in order.
C30_StartResetsStreamState ==
    [][/\ StartSucceeds =>
              /\ stream_audio_buffer_' = <<>>
              /\ accumulated_stream_transcription_' = <<>>
              /\ stt_partial_result_cb_' = log'[1].partial_cb
              /\ stt_final_result_cb_' = log'[1].final_cb
              /\ current_stream_params_' = log'[1].params
       /\ is_streaming_active_' =>
              accumulated_stream_transcription_' =
                  Flatten([i \in 1..Len(EventsOf(log', "pass_end")) |->
                              Flatten(EventsOf(log', "pass_end")[i].segs)])
       /\ \A i \in 1..Len(log') :
              LET before == EventsOf(SubSeq(log', 1, i), "pass_end")
                  heard == Flatten([j \in 1..Len(before) |-> Flatten(before[j].segs)])
                  during == TextsOf(SincePass(SubSeq(log', 1, i)))
              IN /\ log'[i].type = "partial" => log'[i].seen = heard \o Flatten(during)
                 /\ (log'[i].type = "final" /\ log'[i].text # <<>>) => log'[i].text = heard]_vars

\* C30 witness: a stream has just been started, with both callbacks, on an
\* object whose engine still holds a segment recognized in an earlier session;
\* the buffer and the transcript are empty and the session's record holds the
\* start alone.
C30_Witness ==
    /\ lastOp.name = "startStream" /\ lastOp.ret
    /\ result_all # <<>>
    /\ stream_audio_buffer_ = <<>>
    /\ accumulated_stream_transcription_ = <<>>
    /\ stt_partial_result_cb_ = "on_partial" /\ stt_final_result_cb_ = "on_final"
    /\ Len(log) = 1

\* the stream the service holds: controller, completer, error handler, flag
StreamOf(svc) ==
    <<svc._partialTranscriptStreamController, svc._finalTranscriptCompleter,
      svc._onStreamError, svc._isStreaming>>

\* C24: startStreamingSTT called on a service that is not initialized, or
\* that has a stream active, fails with an exception; when a stream is
\* active the call leaves the controller of the partial results, the
\* completer of the final transcript, the error handler and the isStreaming
\* flag as they were, and the native stream with them.
C24_StartWhileStreamingThrows ==
    [][(service'.gave.call = "startStreamingSTT" /\ (service._isStreaming \/ ~isInitialized)) =>
           /\ service'.gave.outcome = "error"
           /\ service._isStreaming =>
                  /\ StreamOf(service') = StreamOf(service)
                  /\ UNCHANGED <<streamVars, log>>]_vars

\* C24 witness: a stream is active, its controller has passed on a partial
\* result and its completer is pending; a second startStreamingSTT, with
\* another error handler, has just thrown, and the first stream's objects and
\* handler are in place.
C24_Witness ==
    /\ service.gave = Gave("startStreamingSTT", "error", NoArg)
    /\ service._isStreaming /\ is_streaming_active_
    /\ service._partialTranscriptStreamController.id = 1
    /\ service._partialTranscriptStreamController.added # <<>>
    /\ ~service._partialTranscriptStreamController.isClosed
    /\ ~service._finalTranscriptCompleter.isCompleted
    /\ service._onStreamError = NullRef
    /\ service.created = 1

\* C25 (as claimed): stopStreamingSTT called while the service has no stream
\* active fails, by throwing or by returning a future that completes with an
\* error; it never gives a transcript, also when it is called a second time
\* after a session that completed.
C25_StopWhileIdleFails ==
    [][(service'.gave.call = "stopStreamingSTT" /\ ~service._isStreaming) =>
           service'.gave.outcome = "error"]_vars

\* C26 (as claimed): between calls, isStreaming is true exactly when the
\* native stream is active, also after a feedAudioChunk whose native pass
\* failed and ended the native stream.
C26_IsStreamingMirrorsNative ==
    service._isStreaming <=> is_streaming_active_

\* ---- one thread, streams started with params other than the defaults ----
TunedStartStream ==
    /\ Quiet("capture") /\ Quiet("control")
    /\ \E params \in TunedParams, partial_cb \in PartialCallbacks,
          final_cb \in FinalCallbacks : startStream(params, partial_cb, final_cb)
    /\ UNCHANGED <<th, service>>
QuietSetUserVocabulary == Quiet("capture") /\ Quiet("control") /\ SetUserVocabulary
QuietFinishEnter == Quiet("capture") /\ FinishEnter

NextParams ==
    \/ NestedInitialize
    \/ TunedStartStream
    \/ QuietSetUserVocabulary
    \/ NestedFeedEnter
    \/ NestedFeedEngineBegin
    \/ NestedFeedEngineReport
    \/ NestedFeedEngineReturn
    \/ NestedFeedFailFlag
    \/ NestedFeedFailCallback
    \/ NestedFeedClear
    \/ QuietFinishEnter
    \/ FinishFinalCallback
    \/ FinishReset

SpecParams == Init /\ [][NextParams]_vars

\* a step that opens a session: the stream becomes active
StartsSession == ~is_streaming_active_ /\ is_streaming_active_'
\* thread t hands its settings to whisper_full in this step
EntersEngine(t) == th[t].pc = "call_engine" /\ th'[t].pc = "in_engine"

C32_NoPartialAfterFinal ==
    \A i, j \in 1..Len(log) :
        (i < j /\ log[i].type = "final") => log[j].type # "partial"

\* ---- serialized use, with the handle released and opened again ----
\* is_streaming_active_ once cleanup has run
ActiveAfterCleanupKept(active) == active
ActiveAfterCleanup(active) == FALSE

\* cleanup frees the context when there is one, and resets the stream state
cleanup ==
    /\ ctx_' = FALSE
    /\ result_all' = IF ctx_ THEN <<>> ELSE result_all
    /\ stream_audio_buffer_' = <<>>
    /\ accumulated_stream_transcription_' = <<>>
    /\ stt_partial_result_cb_' = NullCb
    /\ stt_final_result_cb_' = NullCb
    /\ is_streaming_active_' = ActiveAfterCleanup(is_streaming_active_)
    /\ lastOp' = Op("cleanup", TRUE, is_streaming_active_, NoArg)
    /\ UNCHANGED <<user_vocabulary_, current_stream_params_,
                   g_last_initial_prompt_for_test, log>>

Cleanup == /\ cleanup
           /\ UNCHANGED <<th, service>>

NextLifecycle ==
    \/ Initialize
    \/ StartStream
    \/ ProcessAudioChunk
    \/ FinishStream
    \/ Cleanup

SpecLifecycle == Init /\ [][NextLifecycle]_vars

\* ---- the capture thread and the control thread overlap; a pass yields ----
\* ---- no segment or the segment "a", with either return code           ----
RaceOutcomes ==
    {[segs |-> segs, split |-> IF segs = <<>> THEN <<>> ELSE <<1>>, rc |-> rc] :
        segs \in {<<>>, << <<"a">> >>}, rc \in ReturnCodes}

EngineBeginRace(t) ==
    /\ th[t].pc = "call_engine"
    /\ \E out \in RaceOutcomes :
          th' = [th EXCEPT ![t].pc = "in_engine", ![t].out = out, ![t].k = 1,
                           ![t].audio = stream_audio_buffer_]
    /\ result_all' = <<>>
    /\ g_last_initial_prompt_for_test' = th[t].prompt
    /\ log' = Append(log, PassEvent(HandlerOf(t), th[t].no_context, stream_audio_buffer_))
    /\ UNCHANGED <<service, ctx_, user_vocabulary_, streamVars, lastOp>>

NextRace ==
    \/ ControlInitialize
    \/ ControlStartStream
    \/ \E audio_chunk \in Chunks : FeedEnter(audio_chunk)
    \/ FinishEnter
    \/ \E t \in Threads : EngineBeginRace(t)
    \/ \E t \in Threads : EngineReport(t)
    \/ \E t \in Threads : EngineReturn(t)
    \/ FeedFailFlag
    \/ FeedFailCallback
    \/ FeedClear
    \/ FinishFinalCallback
    \/ FinishReset

SpecRace == Init /\ [][NextRace]_vars

\* C33: exactly-once delivery of the final result rests on the caller's
\* serialization. When processAudioChunk on the capture thread and
\* finishStream on the control thread of one session overlap, the final
\* callback can be invoked twice for the session, and when it is, one
\* invocation is made by finishStream with the accumulated transcript and the
\* other by the failure path of processAudioChunk, with an empty result after
\* a failed pass; it is never invoked a third time.
C33_DoubleFinalByOverlap ==
    /\ Len(FinalEvents) <= 2
    /\ Len(FinalEvents) = 2 =>
          /\ {FinalEvents[1].by, FinalEvents[2].by} = FeedOrFinish
          /\ FeedPassFailed
          /\ \A i \in 1..2 :
                FinalEvents[i].by = "processAudioChunk" => FinalEvents[i].text = <<>>

\* C33 witness: in one session the final callback has been invoked twice,
\* by finishStream with a transcript and by the failure path of
\* processAudioChunk, and both calls have returned.
C33_Witness ==
    /\ Len(FinalEvents) = 2
    /\ \E i, j \in 1..2 :
          /\ FinalEvents[i].by = "finishStream" /\ FinalEvents[i].text # <<>>
          /\ FinalEvents[j].by = "processAudioChunk" /\ FinalEvents[j].text = <<>>
    /\ Quiet("capture") /\ Quiet("control")
    /\ ~is_streaming_active_

\* C35: in every reachable state an active stream has an engine handle:
\* is_streaming_active_ implies ctx_. A stream becomes active only on an
\* initialized handle, and a step that clears the handle (only cleanup does)
\* also leaves the streaming flag false, the buffer and the transcript empty
\* and both callbacks unset.
C35_ActiveImpliesHandle ==
    /\ is_streaming_active_ => ctx_
    /\ [][/\ is_streaming_active_' => ctx_'
          /\ StartsSession => ctx_
          /\ (ctx_ /\ ~ctx_') =>
                /\ lastOp'.name = "cleanup"
                /\ ~is_streaming_active_'
                /\ stream_audio_buffer_' = <<>>
                /\ accumulated_stream_transcription_' = <<>>
                /\ stt_partial_result_cb_' = NullCb
                /\ stt_final_result_cb_' = NullCb]_vars

\* C35 witness: cleanup ran on a handle with an active stream that had
\* recognized text and both callbacks and had delivered no final result; the
\* handle is gone and the stream state is reset.
C35_Witness ==
    /\ lastOp.name = "cleanup" /\ lastOp.active0
    /\ SessionHasPartialCb /\ SessionHasFinalCb
    /\ RecognizedText # <<>>
    /\ FinalEvents = <<>>
    /\ ~ctx_ /\ ~is_streaming_active_
    /\ stream_audio_buffer_ = <<>> /\ accumulated_stream_transcription_ = <<>>
    /\ stt_partial_result_cb_ = NullCb /\ stt_final_result_cb_ = NullCb

\* C34: the Swift service calls the onFinalResult closure of a streaming
\* session exactly once, whether the session ends through stopStreamingSTT or
\* through a feedAudioChunk whose native call failed: never twice, once when
\* the session has ended, and once the delivering call is over isStreaming is
\* false and both stored closures are nil.
C34_FinalResultOnce ==
    /\ Len(service.delivered) <= 1
    /\ (SwiftQuiet /\ SessionOpened /\ ~service.isStreaming) => Len(service.delivered) = 1
    /\ (SwiftQuiet /\ Len(service.delivered) = 1) =>
          /\ ~service.isStreaming
          /\ service.onPartialResultStreamingCallback = NullCb
          /\ service.onFinalResultStreamingCallback = NullCb

====
